---- MODULE Spec2Model ----
(***************************************************************************)
(* Content hashing, author signature (Template) and party signatures       *)
(* (ContractInstance) of cicero-core.                                      *)
(*                                                                         *)
(* One artifact is modelled per behaviour: `kind` says whether it is a     *)
(* Template or a ContractInstance; the fields that the other class does    *)
(* not have keep their initial value.  A digest is a fixed-length tuple    *)
(* of digits that differs for different contents, a signature is the pair  *)
(* of the name of the signing key pair and the signed text.                *)
(***************************************************************************)
EXTENDS Integers, Sequences, FiniteSets, TLC

VARIABLES
    kind,               \* "template" | "contract": the class of the artifact
    metadata,           \* this.metadata
    grammar,            \* this.parserManager.getTemplate()
    models,             \* getModelManager().getModels(): namespace -> content
    scripts,            \* getScriptManager().getScripts(): identifier -> contents
    data,               \* TemplateInstance.data
    concertoData,       \* TemplateInstance.concertoData
    prefix,             \* TemplateInstance.prefix
    currentTime,        \* the current time of this.parserManager
    dataWasSet,         \* (ghost) a setData or parse call has succeeded
    authorSignature,    \* Template.authorSignature
    contractSignatures, \* Instance.contractSignatures
    history,            \* Instance.history
    pending,            \* signContract calls suspended at `await this.toSlc('ergo')`
    result,             \* outcome of the operation that completed last
    called,             \* (ghost) signatories of the signContract calls that reached toSlc, in call order
    succeeded,          \* (ghost) number of signContract calls that returned an archive
    rejected,           \* (ghost) number of signContract calls whose toSlc rejected
    loaded              \* (ghost) number of records that came with the archive of the instance

contentVars == <<metadata, grammar, models, scripts>>
dataVars == <<data, concertoData>>
instanceVars == <<prefix, currentTime, dataWasSet>>
vars == <<kind, metadata, grammar, models, scripts, data, concertoData,
          prefix, currentTime, dataWasSet,
          authorSignature, contractSignatures, history, pending, result,
          called, succeeded, rejected, loaded>>
ghostVars == <<called, succeeded, rejected, loaded>>

----------------------------------------------------------------------------
(* Bounds *)

MaxSigs == 2        \* records appended to contractSignatures
MaxClock == 1       \* milliseconds that pass after the construction
MaxPending == 2     \* signContract calls awaiting toSlc at the same time

----------------------------------------------------------------------------
(* Values *)

NULL == "null"                  \* null where the other values are strings
NullObject == [null |-> TRUE]   \* null where the other values are objects
UNDEFINED == "undefined"
NotAString == "notAString"      \* an argument with typeof !== 'string'
NotANumber == -1                \* stands for an argument with typeof !== 'number'
Epoch == 9                      \* Date.now() when the artifact is constructed
OK == "ok"

\* Error messages thrown by the code
ErrNotSigned == "The contract is not signed by any party/individual."
ErrInvalidSignature == "Template's author signature is invalid!"
ErrMissingSignature == "The template is missing author signature!"
ErrP12Type == "p12File should be of type String!"
ErrPassphraseType == "passphrase should be of type String!"
ErrTimeStampType == "timeStamp should be of type Number!"
ErrTimestampType == "timestamp should be of type Number!"
ErrInvalidData == "Invalid data, must be a valid instance of the template model"
ErrValidation == "ValidationException"  \* serializer.fromJSON / resource.validate
ErrKeystore == "forge: keystore cannot be decoded or decrypted"
ErrPem == "forge: invalid PEM formatted message"
ErrTypeError == "TypeError: Cannot read properties of undefined"
ErrPersist == "toSlc rejected"
ErrNoData == "Data has not been set. Call setData or parse before calling this method."
ErrParse == "Parse error"
ErrFormat == "Unsupported format"
\* the formats that formatCiceroMark supports
Formats == {"markdown_cicero", "ciceromark_parsed", "html", "slate"}
ErrModel == "model validation or logic compilation failed"

Keystores == {"ks1", "ks2"}         \* base64 PKCS#12 blobs holding one key pair
Garbage == "garbage"                \* a string that is no PKCS#12 blob
Password == "password"              \* the passphrase of both keystores
WrongPassword == "wrong"

Instantiator == "P1"                \* the party that instantiates the contract
TemplateModel == "org.example.Contract"     \* contractModel.getFullyQualifiedName()
\* A plain JS data object: $class, the value of the one field of the model,
\* and the order in which the object holds its keys
DataWithKeys(class, field, keys) == [class |-> class, field |-> field, keys |-> keys]
\* the object literal { $class: class, field: field }
Data(class, field) == DataWithKeys(class, field, <<"$class", "field">>)

\* Plain JS data objects: $class and the value of the one field of the model
DataObjects == { Data(TemplateModel, "a"),
                 Data(TemplateModel, "b"),
                 Data(TemplateModel, UNDEFINED),
                 Data("org.example.Other", "a") }

\* new TemplateMetadata(packageJson, readme, samples, request, logo): the
\* metadata holds the arguments it is built from
TemplateMetadata(packageJson, readme, samples, request, logo) ==
    [packageJson |-> packageJson, readme |-> readme, samples |-> samples,
     request |-> request, logo |-> logo]

\* the metadata the artifact is constructed with
MetadataAsConstructed ==
    TemplateMetadata("p1", "r1", [l \in {"default"} |-> "s1"], "q1", "l1")

PrivateKeyOf(ks) == <<"private", ks>>   \* p12.safeContents[1].safeBags[0].key
PublicKeyOf(ks) == <<"public", ks>>
CertificateOf(ks) == [pem |-> "CERTIFICATE", publicKey |-> PublicKeyOf(ks)]

----------------------------------------------------------------------------
(* Hashing *)

HashLen == 5    \* digits of a digest (one per key of the hashed structure)

\* the keys of the hashed structure, in json-stable-stringify's (sorted) order
ContentKeys == <<"data", "grammar", "metadata", "models", "scripts">>

\* JSON text of the value under a key, as a number naming the text
JsonOf(key, v) ==
    CASE key = "metadata" ->
            2 + (IF v.packageJson = "p1" THEN 0 ELSE 1)
              + (IF v.readme = "r1" THEN 0 ELSE 2)
              + (IF v.request = "q1" THEN 0 ELSE 4)
              + (IF v.logo = "l1" THEN 0 ELSE 8)
              + 16 * ( (IF "default" \notin DOMAIN v.samples THEN 2
                        ELSE IF v.samples["default"] = "s1" THEN 0 ELSE 1)
                     + 3 * (IF "fr" \notin DOMAIN v.samples THEN 0
                            ELSE IF v.samples["fr"] = "s1" THEN 1 ELSE 2) )
      [] key = "grammar" ->
            (CASE v = NULL -> 1 [] v = "g1" -> 2 [] v = "" -> 3 [] OTHER -> 4)
      [] key = "models" ->
            (CASE v = [ns \in {"org.example@1.0.0"} |-> "concept C {}"] -> 2
               [] OTHER -> 3)
      [] key = "scripts" ->
            (CASE v = [id \in {"logic.ergo"} |-> "contract C {}"] -> 2
               [] OTHER -> 3)
      [] key = "data" ->
            IF v = NullObject THEN 1
            ELSE (CASE v.class = TemplateModel /\ v.field = "a" -> 2
                    [] v.class = TemplateModel /\ v.field = "b" -> 3
                    [] v.class = TemplateModel /\ v.field = UNDEFINED -> 4
                    [] OTHER -> 5)

\* json-stable-stringify: the keys that are present, sorted, each with its value
stringify(content) ==
    [i \in 1..Len(ContentKeys) |->
        IF ContentKeys[i] \in DOMAIN content
        THEN <<ContentKeys[i], JsonOf(ContentKeys[i], content[ContentKeys[i]])>>
        ELSE <<>>]

\* crypto.createHash('sha256').update(s).digest('hex'): a digest of fixed
\* length, different for different texts (collision resistance)
sha256(s) == [i \in 1..HashLen |-> IF s[i] = <<>> THEN 0 ELSE s[i][2]]

\* the decimal text of a number, as `hash + timestamp` builds it
RECURSIVE Decimal(_)
Decimal(n) == IF n < 10 THEN <<n>> ELSE Decimal(n \div 10) \o <<n % 10>>

\* (mutant) content.grammar is set whatever getTemplate() returns
WithGrammar_NullKey(content, g) ==
    [k \in DOMAIN content \cup {"grammar"} |->
        IF k = "grammar" THEN g ELSE content[k]]

\* content.grammar is set only when parserManager.getTemplate() is truthy
WithGrammar(content, g) ==
    IF g \in {NULL, ""} THEN content
    ELSE [k \in DOMAIN content \cup {"grammar"} |->
            IF k = "grammar" THEN g ELSE content[k]]

TemplateContent(md, g, ms, ss) ==
    WithGrammar([metadata |-> md, models |-> ms, scripts |-> ss], g)

\* (mutant) the data is left out of the hashed structure of an instance
InstanceContent_NoData(md, g, ms, ss, d) ==
    WithGrammar([metadata |-> md, models |-> ms, scripts |-> ss], g)

InstanceContent(md, g, ms, ss, d) ==
    WithGrammar([metadata |-> md, models |-> ms, scripts |-> ss, data |-> d], g)

Template_getHash(md, g, ms, ss) == sha256(stringify(TemplateContent(md, g, ms, ss)))

ContractInstance_getHash(md, g, ms, ss, d) ==
    sha256(stringify(InstanceContent(md, g, ms, ss, d)))

\* (mutant) the signatures are part of the hashed structure
getHash_CoversSignatures ==
    LET h == IF kind = "template"
             THEN Template_getHash(metadata, grammar, models, scripts)
             ELSE ContractInstance_getHash(metadata, grammar, models, scripts, data)
    IN [h EXCEPT ![3] = (@ + Len(contractSignatures)
                           + (IF authorSignature = NullObject THEN 0 ELSE 1)) % 10]

getHash ==
    IF kind = "template"
    THEN Template_getHash(metadata, grammar, models, scripts)
    ELSE ContractInstance_getHash(metadata, grammar, models, scripts, data)

----------------------------------------------------------------------------
(* Signature engine *)

\* sign.write(hash + timestamp); sign.sign(privateKey, 'hex')
\* the signature names the key pair it was made with and the text; the
\* private key itself cannot be read off it
cryptoSign(privateKey, text) == [pair |-> privateKey[2], text |-> text]

\* (mutant) a signature by any key is accepted
cryptoVerify_AnyKey(publicKey, text, signature) ==
    signature.text = text

\* verify.write(hash + timestamp); verify.verify(publicKey, signature, 'hex')
cryptoVerify(publicKey, text, signature) ==
    /\ signature.pair = publicKey[2]
    /\ signature.text = text

\* the checks and the key extraction that open sign and signTemplate:
\* the error thrown, or OK
KeyMaterialOutcome(p12File, passphrase, timestamp, errTimestamp) ==
    CASE p12File = NotAString -> ErrP12Type
      [] passphrase = NotAString -> ErrPassphraseType
      [] timestamp = NotANumber -> errTimestamp
      [] p12File \notin Keystores -> ErrKeystore
      [] passphrase # Password -> ErrKeystore
      [] OTHER -> OK

----------------------------------------------------------------------------
(* ContractInstance *)

\* ContractInstance.verify: the error thrown, or OK
verify(signature, timestamp, signatoryCert, contractHash) ==
    CASE signatoryCert.pem # "CERTIFICATE" -> ErrPem
      [] ~cryptoVerify(signatoryCert.publicKey, contractHash \o Decimal(timestamp), signature)
            -> ErrInvalidSignature
      [] OTHER -> OK

\* (mutant) only the first record is verified
verifyFrom_FirstOnly(sigs, i, contractHash) ==
    IF i > Len(sigs) THEN OK
    ELSE verify(sigs[i].signature, sigs[i].timestamp, sigs[i].signatoryCert, contractHash)

\* (mutant) every record is checked against the hash stored in it
RECURSIVE verifyFrom_StoredHash(_, _, _)
verifyFrom_StoredHash(sigs, i, contractHash) ==
    IF i > Len(sigs) THEN OK
    ELSE LET r == verify(sigs[i].signature, sigs[i].timestamp, sigs[i].signatoryCert,
                         sigs[i].contractHash)
         IN IF r # OK THEN r ELSE verifyFrom_StoredHash(sigs, i + 1, contractHash)

\* the forEach of verifySignatures from record i on: the first error thrown, or OK
RECURSIVE verifyFrom(_, _, _)
verifyFrom(sigs, i, contractHash) ==
    IF i > Len(sigs) THEN OK
    ELSE LET r == verify(sigs[i].signature, sigs[i].timestamp, sigs[i].signatoryCert,
                         contractHash)
         IN IF r # OK THEN r ELSE verifyFrom(sigs, i + 1, contractHash)

\* (mutant) an instance that carries a signature accepts no further one
verifySignatures_OneSigner(sigs, standaloneVerify, contractHash) ==
    IF standaloneVerify /\ Len(sigs) = 0 THEN ErrNotSigned
    ELSE IF ~standaloneVerify /\ Len(sigs) >= 1 THEN ErrInvalidSignature
    ELSE verifyFrom(sigs, 1, contractHash)

\* (mutant) an empty contractSignatures is refused whatever the flag
verifySignatures_AlwaysRequires(sigs, standaloneVerify, contractHash) ==
    IF Len(sigs) = 0 THEN ErrNotSigned ELSE verifyFrom(sigs, 1, contractHash)

\* (mutant) the records are verified only by a standalone verification
verifySignatures_StandaloneOnly(sigs, standaloneVerify, contractHash) ==
    IF standaloneVerify
    THEN IF Len(sigs) = 0 THEN ErrNotSigned ELSE verifyFrom(sigs, 1, contractHash)
    ELSE OK

\* ContractInstance.verifySignatures: the error thrown, or OK (returns true)
verifySignatures(sigs, standaloneVerify, contractHash) ==
    IF standaloneVerify /\ Len(sigs) = 0 THEN ErrNotSigned
    ELSE verifyFrom(sigs, 1, contractHash)

\* (mutant) the record keeps the private key it was signed with
signatureObject_WithKey(p12File, timestamp, signatory, contractHash) ==
    [signatory |-> signatory,
     contractHash |-> contractHash,
     timestamp |-> timestamp,
     signatoryCert |-> CertificateOf(p12File),
     signature |-> cryptoSign(PrivateKeyOf(p12File), contractHash \o Decimal(timestamp)),
     privateKey |-> PrivateKeyOf(p12File)]

\* the signatureObject that sign builds
signatureObject(p12File, timestamp, signatory, contractHash) ==
    [signatory |-> signatory,
     contractHash |-> contractHash,
     timestamp |-> timestamp,
     signatoryCert |-> CertificateOf(p12File),
     signature |-> cryptoSign(PrivateKeyOf(p12File), contractHash \o Decimal(timestamp))]

\* (mutant) the records already there get the timestamp of the new record
sign_Restamp(sigs, p12File, timestamp, signatory, contractHash) ==
    Append([i \in 1..Len(sigs) |-> [sigs[i] EXCEPT !.timestamp = timestamp]],
           signatureObject(p12File, timestamp, signatory, contractHash))

\* (mutant) a signatory who signed already gets the earlier record replaced
sign_Dedup(sigs, p12File, timestamp, signatory, contractHash) ==
    IF \E i \in 1..Len(sigs) : sigs[i].signatory = signatory
    THEN [i \in 1..Len(sigs) |->
            IF sigs[i].signatory = signatory
            THEN signatureObject(p12File, timestamp, signatory, contractHash)
            ELSE sigs[i]]
    ELSE Append(sigs, signatureObject(p12File, timestamp, signatory, contractHash))

\* (mutant) the new record is put in front of the others
sign_Unshift(sigs, p12File, timestamp, signatory, contractHash) ==
    <<signatureObject(p12File, timestamp, signatory, contractHash)>> \o sigs

\* ContractInstance.sign once the key material is extracted: the record is
\* pushed onto contractSignatures
sign(sigs, p12File, timestamp, signatory, contractHash) ==
    Append(sigs, signatureObject(p12File, timestamp, signatory, contractHash))

\* (mutant) the entry is appended twice
addHistory_Twice(log, operation, party, timestamp) ==
    log \o << [currentState |-> [operation |-> operation, party |-> party],
               timestamp |-> timestamp],
             [currentState |-> [operation |-> operation, party |-> party],
               timestamp |-> timestamp] >>

\* (mutant) the entry replaces the last entry of the log
addHistory_Overwrite(log, operation, party, timestamp) ==
    IF Len(log) = 0
    THEN << [currentState |-> [operation |-> operation, party |-> party],
             timestamp |-> timestamp] >>
    ELSE [log EXCEPT ![Len(log)] =
            [currentState |-> [operation |-> operation, party |-> party],
             timestamp |-> timestamp]]

\* Util.addHistory, after sections 3 and 4.4 of the specification (its code
\* is not among the sources at hand): one more entry at the end of the log
addHistory(log, operation, party, timestamp) ==
    Append(log, [currentState |-> [operation |-> operation, party |-> party],
                 timestamp |-> timestamp])

\* what an operation leaves in `result`
Result(op, arg, outcome, value, before) ==
    [op |-> op, arg |-> arg, outcome |-> outcome, value |-> value, before |-> before]

NoValue == <<>>
\* (ghost) the state in which an operation is called
Snapshot ==
    [contractSignatures |-> contractSignatures, history |-> history,
     authorSignature |-> authorSignature, hash |-> getHash]

\* ContractInstance.signContract up to `await this.toSlc('ergo')`: the
\* existing records are verified, the new record is signed and pushed, and
\* the call is suspended until the promise of toSlc settles. now is what
\* Date.now() returns. The 'sign' entry of the history is written by
\* Util.addHistory, which is not among the sources at hand; it is appended
\* together with the record, where section 4.5 (b) of the specification
\* puts it.
SignContract(p12File, passphrase, signatory, now) ==
    /\ kind = "contract"
    /\ LET v == verifySignatures(contractSignatures, FALSE, getHash)
           timestamp == now
           o == IF v # OK THEN v
                ELSE KeyMaterialOutcome(p12File, passphrase, timestamp, ErrTimeStampType)
       IN IF o = OK
          THEN /\ Len(contractSignatures) < MaxSigs
               /\ Len(pending) < MaxPending
               /\ contractSignatures' =
                        sign(contractSignatures, p12File, timestamp, signatory, getHash)
               /\ history' = addHistory(history, "sign", signatory, timestamp)
               /\ pending' = Append(pending, [signatory |-> signatory,
                                               arg |-> <<p12File, passphrase, signatory>>,
                                               before |-> Snapshot])
               /\ called' = Append(called, signatory)
               /\ UNCHANGED result
          ELSE /\ result' = Result("signContract",
                                   IF v = OK THEN <<p12File, passphrase, signatory>>
                                   ELSE NoValue,
                                   o, NoValue, Snapshot)
               /\ UNCHANGED <<contractSignatures, history, pending, called>>
    /\ UNCHANGED <<kind, instanceVars, contentVars, dataVars, authorSignature,
                   succeeded, rejected, loaded>>

\* (mutant) the call that resumes puts back the records it saw when it was
\* called, with its own record behind them
ToSlc_WritesBack(i, fulfilled) ==
    /\ i \in 1..Len(pending)
    /\ result' = Result("signContract", pending[i].arg,
                        IF fulfilled THEN OK ELSE ErrPersist, NoValue, pending[i].before)
    /\ pending' = SubSeq(pending, 1, i - 1) \o SubSeq(pending, i + 1, Len(pending))
    /\ succeeded' = IF fulfilled THEN succeeded + 1 ELSE succeeded
    /\ rejected' = IF fulfilled THEN rejected ELSE rejected + 1
    /\ contractSignatures' =
            SubSeq(contractSignatures, 1, Len(pending[i].before.contractSignatures) + 1)
    /\ UNCHANGED <<kind, instanceVars, contentVars, dataVars, authorSignature,
                   history, called, loaded>>

\* the promise of toSlc settles: signContract returns the archive or rejects
ToSlc(i, fulfilled) ==
    /\ i \in 1..Len(pending)
    /\ result' = Result("signContract", pending[i].arg,
                        IF fulfilled THEN OK ELSE ErrPersist, NoValue, pending[i].before)
    /\ pending' = SubSeq(pending, 1, i - 1) \o SubSeq(pending, i + 1, Len(pending))
    /\ succeeded' = IF fulfilled THEN succeeded + 1 ELSE succeeded
    /\ rejected' = IF fulfilled THEN rejected ELSE rejected + 1
    /\ UNCHANGED <<kind, instanceVars, contentVars, dataVars, authorSignature, contractSignatures,
                   history, called, loaded>>

\* ContractInstance.verifySignatures called by the user
VerifySignatures(standaloneVerify) ==
    /\ kind = "contract"
    /\ result' = Result("verifySignatures", standaloneVerify,
                        verifySignatures(contractSignatures, standaloneVerify, getHash),
                        NoValue, Snapshot)
    /\ UNCHANGED <<kind, instanceVars, contentVars, dataVars, authorSignature, contractSignatures,
                   history, pending, ghostVars>>

\* (mutant) a call that follows another call returns a different digest
GetHash_Salted ==
    /\ result' = Result("getHash", NoValue, OK,
                        IF result.op = "getHash"
                        THEN [getHash EXCEPT ![3] = (@ + 1) % 10] ELSE getHash,
                        Snapshot)
    /\ UNCHANGED <<kind, instanceVars, contentVars, dataVars, authorSignature, contractSignatures,
                   history, pending, ghostVars>>

\* getHash called by the user
GetHash ==
    /\ result' = Result("getHash", NoValue, OK, getHash, Snapshot)
    /\ UNCHANGED <<kind, instanceVars, contentVars, dataVars, authorSignature, contractSignatures,
                   history, pending, ghostVars>>

\* (mutant) the data is assigned before it is deserialised and validated
SetData_AssignsFirst(d) ==
    /\ kind = "contract"
    /\ LET o == CASE d.class # TemplateModel -> ErrInvalidData
                   [] d.field = UNDEFINED -> ErrValidation
                   [] OTHER -> OK
       IN /\ result' = Result("setData", d, o, NoValue, Snapshot)
          /\ IF o # ErrInvalidData
             THEN /\ data' = d
                  /\ concertoData' = IF o = OK THEN [resource |-> d] ELSE concertoData
             ELSE UNCHANGED dataVars
          /\ dataWasSet' = (dataWasSet \/ o = OK)
    /\ UNCHANGED <<kind, prefix, currentTime, contentVars, authorSignature,
                   contractSignatures, history, pending, ghostVars>>

\* TemplateInstance.setData
SetData(d) ==
    /\ kind = "contract"
    /\ LET o == CASE d.class # TemplateModel -> ErrInvalidData
                   [] d.field = UNDEFINED -> ErrValidation
                   [] OTHER -> OK
       IN /\ result' = Result("setData", d, o, NoValue, Snapshot)
          /\ IF o = OK
             THEN /\ data' = d
                  /\ concertoData' = [resource |-> d]
             ELSE UNCHANGED dataVars
          /\ dataWasSet' = (dataWasSet \/ o = OK)
    /\ UNCHANGED <<kind, prefix, currentTime, contentVars, authorSignature,
                   contractSignatures, history, pending, ghostVars>>

\* templateMarkTransformer.dataFromCiceroMark: the data that the text of a
\* contract holds, NullObject for a text that does not parse
dataFromCiceroMark(input) ==
    CASE input = <<"text", "a">> -> Data(TemplateModel, "a")
      [] input = <<"text", "b">> -> Data(TemplateModel, "b")
      [] OTHER -> NullObject

\* TemplateInstance.parse: the current time of the parser is set, the text
\* is parsed and the data is handed to setData
Parse(input, now) ==
    /\ kind = "contract"
    /\ currentTime' = now
    /\ LET d == dataFromCiceroMark(input)
           o == CASE d = NullObject -> ErrParse
                  [] d.class # TemplateModel -> ErrInvalidData
                  [] d.field = UNDEFINED -> ErrValidation
                  [] OTHER -> OK
       IN /\ result' = Result("parse", input, o, NoValue, Snapshot)
          /\ IF o = OK
             THEN /\ data' = d
                  /\ concertoData' = [resource |-> d]
             ELSE UNCHANGED dataVars
          /\ dataWasSet' = (dataWasSet \/ o = OK)
    /\ UNCHANGED <<kind, prefix, contentVars, authorSignature, contractSignatures,
                   history, pending, ghostVars>>

\* (mutant) draft does not look at concertoData
Draft_NoCheck(format, now) ==
    /\ kind = "contract"
    /\ currentTime' = now
    /\ result' = Result("draft", format,
                        IF format \in Formats THEN OK ELSE ErrFormat,
                        IF format \in Formats /\ data # NullObject
                        THEN <<"text", data.field>> ELSE NoValue, Snapshot)
    /\ UNCHANGED <<kind, prefix, dataWasSet, contentVars, dataVars, authorSignature,
                   contractSignatures, history, pending, ghostVars>>

\* TemplateInstance.draft: refused without concertoData; otherwise the
\* current time of the parser is set and the text is drafted from the data
\* and formatted
Draft(format, now) ==
    /\ kind = "contract"
    /\ IF concertoData = NullObject
       THEN /\ result' = Result("draft", format, ErrNoData, NoValue, Snapshot)
            /\ UNCHANGED currentTime
       ELSE /\ currentTime' = now
            /\ result' = Result("draft", format,
                                IF format \in Formats THEN OK ELSE ErrFormat,
                                IF format \in Formats
                                THEN <<"text", data.field>> ELSE NoValue, Snapshot)
    /\ UNCHANGED <<kind, prefix, dataWasSet, contentVars, dataVars, authorSignature,
                   contractSignatures, history, pending, ghostVars>>

\* JSON.stringify(data): the members in the order in which the object holds
\* its keys, a member whose value is undefined left out
RECURSIVE JSON_stringify_from(_, _)
JSON_stringify_from(d, i) ==
    IF i > Len(d.keys) THEN <<>>
    ELSE LET k == d.keys[i]
             v == IF k = "$class" THEN d.class ELSE d.field
         IN (IF v = UNDEFINED THEN <<>> ELSE <<k, v>>) \o JSON_stringify_from(d, i + 1)

JSON_stringify(d) == JSON_stringify_from(d, 1)

\* crypto.createHash('sha256').update(textToHash).digest('hex') of a JSON
\* text: different for different texts (collision resistance)
hexDigest(textToHash) == <<"sha256", textToHash>>

\* TemplateInstance.getIdentifier
getIdentifier(p, d) ==
    IF d # NullObject THEN <<p, "-", hexDigest(JSON_stringify(d))>> ELSE <<p>>

\* getIdentifier called by the user
GetIdentifier ==
    /\ kind = "contract"
    /\ result' = Result("getIdentifier", NoValue, OK, getIdentifier(prefix, data), Snapshot)
    /\ UNCHANGED <<kind, instanceVars, contentVars, dataVars, authorSignature,
                   contractSignatures, history, pending, ghostVars>>

----------------------------------------------------------------------------
(* Template *)

\* the signatureObject that signTemplate builds
templateSignatureObject(p12File, timestamp, templateHash) ==
    [templateHash |-> templateHash,
     timestamp |-> timestamp,
     signatoryCert |-> CertificateOf(p12File),
     signature |-> cryptoSign(PrivateKeyOf(p12File), templateHash \o Decimal(timestamp))]

\* (mutant) authorSignature is read without the null check
verifyTemplateSignature_NoNullCheck(sig, templateHash) ==
    CASE "templateSignature" \notin DOMAIN sig -> ErrTypeError
      [] sig.templateSignature.signatoryCert.pem # "CERTIFICATE" -> ErrPem
      [] ~cryptoVerify(sig.templateSignature.signatoryCert.publicKey,
                       templateHash \o Decimal(sig.templateSignature.timestamp),
                       sig.templateSignature.signature) -> ErrInvalidSignature
      [] OTHER -> OK

\* (mutant) the signature is checked against the hash stored in the record
verifyTemplateSignature_StoredHash(sig, templateHash) ==
    CASE sig = NullObject -> ErrMissingSignature
      [] "templateSignature" \notin DOMAIN sig -> ErrTypeError
      [] sig.templateSignature.signatoryCert.pem # "CERTIFICATE" -> ErrPem
      [] ~cryptoVerify(sig.templateSignature.signatoryCert.publicKey,
                       sig.templateSignature.templateHash
                            \o Decimal(sig.templateSignature.timestamp),
                       sig.templateSignature.signature) -> ErrInvalidSignature
      [] OTHER -> OK

\* Template.verifyTemplateSignature: the error thrown, or OK
verifyTemplateSignature(sig, templateHash) ==
    CASE sig = NullObject -> ErrMissingSignature
      [] "templateSignature" \notin DOMAIN sig -> ErrTypeError
      [] sig.templateSignature.signatoryCert.pem # "CERTIFICATE" -> ErrPem
      [] ~cryptoVerify(sig.templateSignature.signatoryCert.publicKey,
                       templateHash \o Decimal(sig.templateSignature.timestamp),
                       sig.templateSignature.signature) -> ErrInvalidSignature
      [] OTHER -> OK

\* (mutant) a template that is signed already keeps its signature
signTemplate_KeepFirst(sig, p12File, timestamp, templateHash) ==
    IF sig = NullObject THEN templateSignatureObject(p12File, timestamp, templateHash)
    ELSE sig

\* Template.signTemplate once the key material is extracted: the new value of
\* authorSignature, which was sig (`this.authorSignature = signatureObject`)
signTemplate(sig, p12File, timestamp, templateHash) ==
    templateSignatureObject(p12File, timestamp, templateHash)

\* (mutant) the signature is cleared before the key material is extracted
SignTemplate_ClearsFirst(p12File, passphrase, timestamp) ==
    /\ kind = "template"
    /\ LET o == KeyMaterialOutcome(p12File, passphrase, timestamp, ErrTimestampType)
       IN /\ result' = Result("signTemplate", NoValue, o, NoValue, Snapshot)
          /\ authorSignature' =
                IF o = OK THEN signTemplate(authorSignature, p12File, timestamp, getHash)
                ELSE NullObject
    /\ UNCHANGED <<kind, instanceVars, contentVars, dataVars, contractSignatures, history, pending,
                   ghostVars>>

\* Template.signTemplate
SignTemplate(p12File, passphrase, timestamp) ==
    /\ kind = "template"
    /\ LET o == KeyMaterialOutcome(p12File, passphrase, timestamp, ErrTimestampType)
       IN /\ result' = Result("signTemplate", NoValue, o, NoValue, Snapshot)
          /\ authorSignature' =
                IF o = OK THEN signTemplate(authorSignature, p12File, timestamp, getHash)
                ELSE authorSignature
    /\ UNCHANGED <<kind, instanceVars, contentVars, dataVars, contractSignatures, history, pending,
                   ghostVars>>

\* (mutant) the keystore of the options is ignored
ToArchive_NeverSigns(keystore, now, saved) ==
    /\ kind = "template"
    /\ result' = Result("toArchive", keystore # NullObject,
                        IF saved THEN OK ELSE ErrPersist,
                        IF saved THEN <<"archive">> ELSE NoValue, Snapshot)
    /\ UNCHANGED <<kind, instanceVars, contentVars, dataVars, authorSignature, contractSignatures,
                   history, pending, ghostVars>>

\* Template.toArchive: with options.keystore the template is signed at
\* Date.now() (now), then TemplateSaver.toArchive produces the archive or
\* rejects (saved)
ToArchive(keystore, now, saved) ==
    /\ kind = "template"
    /\ LET o == IF keystore # NullObject
                THEN KeyMaterialOutcome(keystore.p12File, keystore.passphrase, now,
                                        ErrTimestampType)
                ELSE OK
       IN /\ authorSignature' =
                IF keystore # NullObject /\ o = OK
                THEN signTemplate(authorSignature, keystore.p12File, now, getHash)
                ELSE authorSignature
          /\ result' = Result("toArchive", keystore # NullObject,
                              IF o # OK THEN o ELSE IF saved THEN OK ELSE ErrPersist,
                              IF o = OK /\ saved THEN <<"archive">> ELSE NoValue,
                              Snapshot)
    /\ UNCHANGED <<kind, instanceVars, contentVars, dataVars, contractSignatures, history, pending,
                   ghostVars>>

\* Template.verifyTemplateSignature called by the user
VerifyTemplateSignature ==
    /\ kind = "template"
    /\ result' = Result("verifyTemplateSignature", NoValue,
                        verifyTemplateSignature(authorSignature, getHash), NoValue, Snapshot)
    /\ UNCHANGED <<kind, instanceVars, contentVars, dataVars, authorSignature, contractSignatures,
                   history, pending, ghostVars>>

\* Template.setPackageJson: the metadata is rebuilt around the new package.json
SetPackageJson(packageJson) ==
    /\ kind = "template"
    /\ packageJson # metadata.packageJson
    /\ metadata' = TemplateMetadata(packageJson, metadata.readme, metadata.samples,
                                    metadata.request, metadata.logo)
    /\ result' = Result("setPackageJson", packageJson, OK, metadata, Snapshot)
    /\ UNCHANGED <<kind, instanceVars, grammar, models, scripts, dataVars, authorSignature,
                   contractSignatures, history, pending, ghostVars>>

\* (mutant) the author signature is verified whatever the options are
validate_AlwaysVerifies(verifySignature, sig, templateHash, logicValid) ==
    LET v == verifyTemplateSignature(sig, templateHash)
    IN IF v # OK
       THEN [outcome |-> v, steps |-> <<"verifyTemplateSignature">>]
       ELSE [outcome |-> IF logicValid THEN OK ELSE ErrModel,
             steps |-> <<"verifyTemplateSignature", "validateModelFiles">>]

\* Template.validate: the outcome and the steps run. logicValid says whether
\* the model files validate and the logic compiles
validate(verifySignature, sig, templateHash, logicValid) ==
    LET v == IF verifySignature THEN verifyTemplateSignature(sig, templateHash) ELSE OK
        before == IF verifySignature THEN <<"verifyTemplateSignature">> ELSE <<>>
    IN IF v # OK
       THEN [outcome |-> v, steps |-> before]
       ELSE [outcome |-> IF logicValid THEN OK ELSE ErrModel,
             steps |-> Append(before, "validateModelFiles")]

\* Template.validate called by the user
Validate(verifySignature, logicValid) ==
    /\ kind = "template"
    /\ LET r == validate(verifySignature, authorSignature, getHash, logicValid)
       IN result' = Result("validate", verifySignature, r.outcome, r.steps, Snapshot)
    /\ UNCHANGED <<kind, instanceVars, contentVars, dataVars, authorSignature, contractSignatures,
                   history, pending, ghostVars>>

\* Template.setSamples
SetSamples(samples) ==
    /\ kind = "template"
    /\ metadata' = TemplateMetadata(metadata.packageJson, metadata.readme, samples,
                                    metadata.request, metadata.logo)
    /\ result' = Result("setSamples", samples, OK, metadata, Snapshot)
    /\ UNCHANGED <<kind, instanceVars, grammar, models, scripts, dataVars, authorSignature,
                   contractSignatures, history, pending, ghostVars>>

\* Template.setSample: samples[locale] = sample on the samples of the metadata
SetSample(sample, locale) ==
    /\ kind = "template"
    /\ LET samples == [l \in DOMAIN metadata.samples \cup {locale} |->
                            IF l = locale THEN sample ELSE metadata.samples[l]]
       IN metadata' = TemplateMetadata(metadata.packageJson, metadata.readme, samples,
                                       metadata.request, metadata.logo)
    /\ result' = Result("setSample", <<sample, locale>>, OK, metadata, Snapshot)
    /\ UNCHANGED <<kind, instanceVars, grammar, models, scripts, dataVars, authorSignature,
                   contractSignatures, history, pending, ghostVars>>

\* Template.setRequest
SetRequest(request) ==
    /\ kind = "template"
    /\ metadata' = TemplateMetadata(metadata.packageJson, metadata.readme,
                                    metadata.samples, request, metadata.logo)
    /\ result' = Result("setRequest", request, OK, metadata, Snapshot)
    /\ UNCHANGED <<kind, instanceVars, grammar, models, scripts, dataVars, authorSignature,
                   contractSignatures, history, pending, ghostVars>>

\* Template.setReadme: the constructor is called with four arguments, its
\* logo parameter is undefined
SetReadme(readme) ==
    /\ kind = "template"
    /\ metadata' = TemplateMetadata(metadata.packageJson, readme, metadata.samples,
                                    metadata.request, UNDEFINED)
    /\ result' = Result("setReadme", readme, OK, metadata, Snapshot)
    /\ UNCHANGED <<kind, instanceVars, grammar, models, scripts, dataVars, authorSignature,
                   contractSignatures, history, pending, ghostVars>>

\* the grammar is replaced through the object that getParserManager hands out
SetTemplate(g) ==
    /\ kind = "template"
    /\ g # grammar
    /\ grammar' = g
    /\ result' = Result("setTemplate", NoValue, OK, NoValue, Snapshot)
    /\ UNCHANGED <<kind, instanceVars, metadata, models, scripts, dataVars, authorSignature,
                   contractSignatures, history, pending, ghostVars>>

\* the content of a model file is replaced through the object that
\* getModelManager hands out
UpdateModelFile(ns, content) ==
    /\ kind = "template"
    /\ ns \in DOMAIN models
    /\ content # models[ns]
    /\ models' = [models EXCEPT ![ns] = content]
    /\ result' = Result("updateModelFile", NoValue, OK, NoValue, Snapshot)
    /\ UNCHANGED <<kind, instanceVars, metadata, grammar, scripts, dataVars, authorSignature,
                   contractSignatures, history, pending, ghostVars>>

\* the contents of a script are replaced through the object that
\* getScriptManager hands out
UpdateScript(id, contents) ==
    /\ kind = "template"
    /\ id \in DOMAIN scripts
    /\ contents # scripts[id]
    /\ scripts' = [scripts EXCEPT ![id] = contents]
    /\ result' = Result("updateScript", NoValue, OK, NoValue, Snapshot)
    /\ UNCHANGED <<kind, instanceVars, metadata, grammar, models, dataVars, authorSignature,
                   contractSignatures, history, pending, ghostVars>>

----------------------------------------------------------------------------
(* Specification *)

\* the authorSignature argument of the Template constructor, as the loader
\* passes it for an archive that holds a signature
ArchiveSignatures(templateHash) ==
    { [templateSignature |-> templateSignatureObject("ks1", Epoch, templateHash)],
      [templateSignature |-> templateSignatureObject("ks1", Epoch, <<0, 0, 0, 0, 0>>)],
      [templateSignature |->
        [templateSignatureObject("ks1", Epoch, templateHash)
            EXCEPT !.templateHash = <<0, 0, 0, 0, 0>>]] }

\* a record of which one character of the signature was changed
Corrupted(r) == [r EXCEPT !.signature.text[1] = (@ + 1) % 10]

\* the contractSignatures of an archive given to ContractInstance.fromArchive:
\* none, or the records of P1 and P2 of which one was corrupted
ArchiveContractSignatures(contractHash) ==
    LET r1 == signatureObject("ks1", Epoch, "P1", contractHash)
        r2 == signatureObject("ks2", Epoch, "P2", contractHash)
    IN { <<>>, <<Corrupted(r1), r2>>, <<r1, Corrupted(r2)>> }

\* the history that comes with these records
RECURSIVE ArchiveHistory(_, _)
ArchiveHistory(sigs, i) ==
    IF i = 0 THEN addHistory(<<>>, "instantiate", Instantiator, Epoch)
    ELSE addHistory(ArchiveHistory(sigs, i - 1), "sign", sigs[i].signatory, sigs[i].timestamp)

Init ==
    /\ kind \in {"template", "contract"}
    /\ metadata = MetadataAsConstructed
    /\ grammar \in (IF kind = "template" THEN {NULL, "g1"} ELSE {"g1"})
    /\ models = [ns \in {"org.example@1.0.0"} |-> "concept C {}"]
    /\ scripts = [id \in {"logic.ergo"} |-> "contract C {}"]
    /\ IF kind = "template"
       THEN /\ data = NullObject
            /\ concertoData = NullObject
            /\ authorSignature \in {NullObject} \cup
                    ArchiveSignatures(Template_getHash(metadata, grammar, models, scripts))
            /\ history = <<>>
            /\ contractSignatures = <<>>
       ELSE /\ data = Data(TemplateModel, "a")
            /\ concertoData = [resource |-> data]
            /\ authorSignature = NullObject
            /\ contractSignatures \in ArchiveContractSignatures(
                    ContractInstance_getHash(metadata, grammar, models, scripts, data))
            /\ history = ArchiveHistory(contractSignatures, Len(contractSignatures))
    /\ prefix = "acme@1.0.0"
    /\ currentTime = Epoch
    /\ dataWasSet = (data # NullObject)
    /\ pending = <<>>
    /\ result = Result("new", NoValue, OK, NoValue, Snapshot)
    /\ called = <<>>
    /\ succeeded = 0
    /\ rejected = 0
    /\ loaded = Len(contractSignatures)

\* the (p12File, passphrase, signatory) arguments tried: each way the key
\* extraction fails, and each party signing with its own keystore
KeyInputs ==
    { <<NotAString, Password, "P1">>, <<"ks1", NotAString, "P1">>,
      <<Garbage, Password, "P1">>, <<"ks1", WrongPassword, "P1">>,
      <<"ks1", Password, "P1">>, <<"ks2", Password, "P2">> }

\* the (p12File, passphrase) arguments tried on a template: each way the key
\* extraction fails, and the keystore of the author
AuthorKeyInputs ==
    { <<NotAString, Password>>, <<"ks1", NotAString>>, <<Garbage, Password>>,
      <<"ks1", WrongPassword>>, <<"ks1", Password>> }

\* options.keystore of toArchive: none, or a p12File with a passphrase
KeystoreOptions ==
    {NullObject} \cup { [p12File |-> k[1], passphrase |-> k[2]] : k \in AuthorKeyInputs }

\* the values that the edits of the content put in place
PackageJsons == {"p1", "p2"}
Readmes == {"r1", "r2"}
Requests == {"q1", "q2"}
SampleTexts == {"s1", "s2"}
Locales == {"default", "fr"}
SampleMaps == [{"default"} -> SampleTexts]
Grammars == {NULL, "g1"}
ModelContents == {"concept C {}", "concept D {}"}
ScriptContents == {"contract C {}", "contract D {}"}

\* what Date.now() may return: time does not run backwards
Now ==
    { t \in Epoch..(Epoch + MaxClock) :
        /\ \A i \in 1..Len(history) : history[i].timestamp <= t
        /\ authorSignature # NullObject /\ "timestamp" \in DOMAIN authorSignature
                => authorSignature.timestamp <= t }

\* the operations of a ContractInstance
ContractNext ==
    \/ \E k \in KeyInputs, now \in Now : SignContract(k[1], k[2], k[3], now)
    \/ \E i \in 1..MaxPending, f \in BOOLEAN : ToSlc(i, f)
    \/ \E b \in BOOLEAN : VerifySignatures(b)
    \/ GetHash
    \/ \E d \in DataObjects : SetData(d)

\* the operations of a Template
TemplateNext ==
    \/ \E k \in AuthorKeyInputs, t \in Now \cup {NotANumber} : SignTemplate(k[1], k[2], t)
    \/ VerifyTemplateSignature
    \/ \E b \in BOOLEAN, valid \in BOOLEAN : Validate(b, valid)
    \/ \E ks \in KeystoreOptions, now \in Now, saved \in BOOLEAN : ToArchive(ks, now, saved)
    \/ GetHash
    \/ \E p \in PackageJsons : SetPackageJson(p)
    \/ \E g \in Grammars : SetTemplate(g)
    \/ \E ns \in DOMAIN models, c \in ModelContents : UpdateModelFile(ns, c)
    \/ \E id \in DOMAIN scripts, c \in ScriptContents : UpdateScript(id, c)

\* the setters of the metadata of a Template
MetadataNext ==
    \/ \E p \in PackageJsons : SetPackageJson(p)
    \/ \E r \in Readmes : SetReadme(r)
    \/ \E m \in SampleMaps : SetSamples(m)
    \/ \E t \in SampleTexts, l \in Locales : SetSample(t, l)
    \/ \E q \in Requests : SetRequest(q)

\* the operations of both classes; the setters of the metadata are explored
\* on their own, in MetadataSpec
Next == ContractNext \/ TemplateNext

Spec == Init /\ [][Next]_vars

\* the behaviours of a ContractInstance, and those of a Template
ContractInit == Init /\ kind = "contract"
TemplateInit == Init /\ kind = "template"
ContractSpec == ContractInit /\ [][ContractNext]_vars
TemplateSpec == TemplateInit /\ [][TemplateNext]_vars

\* a Template, unsigned, on which only the setters of the metadata are called
MetadataInit == TemplateInit /\ authorSignature = NullObject
MetadataSpec == MetadataInit /\ [][MetadataNext]_vars

\* the prefixes that instances are constructed with
Prefixes == {"acme@1.0.0", "latedelivery@2.0.0"}

\* the data objects handed to setData: those of DataObjects, and the data
\* of the first of them held with its keys in the other order
InstanceData ==
    DataObjects \cup {DataWithKeys(TemplateModel, "a", <<"field", "$class">>)}

\* the texts handed to parse
ParseInputs == {<<"text", "a">>, <<"text", "b">>, <<"not the text">>}

\* the options.format handed to draft
FormatOptions == Formats \cup {"pdf"}

\* a TemplateInstance as its constructor leaves it: no data, no signature
InstanceInit ==
    /\ kind = "contract"
    /\ metadata = MetadataAsConstructed
    /\ grammar = "g1"
    /\ models = [ns \in {"org.example@1.0.0"} |-> "concept C {}"]
    /\ scripts = [id \in {"logic.ergo"} |-> "contract C {}"]
    /\ data = NullObject
    /\ concertoData = NullObject
    /\ prefix \in Prefixes
    /\ currentTime = Epoch
    /\ dataWasSet = FALSE
    /\ authorSignature = NullObject
    /\ contractSignatures = <<>>
    /\ history = <<>>
    /\ pending = <<>>
    /\ result = Result("new", NoValue, OK, NoValue, Snapshot)
    /\ called = <<>>
    /\ succeeded = 0
    /\ rejected = 0
    /\ loaded = 0

InstanceNext ==
    \/ \E d \in InstanceData : SetData(d)
    \/ \E input \in ParseInputs, now \in Epoch..(Epoch + MaxClock) : Parse(input, now)
    \/ \E format \in FormatOptions, now \in Epoch..(Epoch + MaxClock) : Draft(format, now)
    \/ GetIdentifier

InstanceSpec == InstanceInit /\ [][InstanceNext]_vars

----------------------------------------------------------------------------
(* Properties *)

IsContract == kind = "contract"
IsTemplate == kind = "template"

\* record r does not verify against the hash of the current content
Invalid(r) == verify(r.signature, r.timestamp, r.signatoryCert, getHash) # OK

AnyInvalid == \E i \in 1..Len(contractSignatures) : Invalid(contractSignatures[i])

\* record r carries a signature by the key of its certificate over the hash
\* and the timestamp stored in it
ValidWhenMade(r) ==
    cryptoVerify(r.signatoryCert.publicKey, r.contractHash \o Decimal(r.timestamp), r.signature)

\* C1: after signTemplate has succeeded on a template and no content has
\* changed since, verifyTemplateSignature on that template does not throw.
C1_SignVerifyRoundTrip ==
    ( /\ IsTemplate
      /\ result.op = "verifyTemplateSignature"
      /\ "templateHash" \in DOMAIN authorSignature
      /\ authorSignature.templateHash = getHash )
    => result.outcome = OK

\* C2: a signContract call made while some record of contractSignatures does
\* not verify against the current hash fails, and contractSignatures is what
\* it was before the call.
C2_SignContractRefuses ==
    ( /\ IsContract
      /\ result.op = "signContract"
      /\ \E i \in 1..Len(result.before.contractSignatures) :
            LET r == result.before.contractSignatures[i]
            IN verify(r.signature, r.timestamp, r.signatoryCert, result.before.hash) # OK )
    => /\ result.outcome = ErrInvalidSignature
       /\ contractSignatures = result.before.contractSignatures

C2_Witness ==
    /\ IsContract
    /\ result.op = "signContract"
    /\ result.outcome = ErrInvalidSignature
    /\ AnyInvalid
    /\ Len(contractSignatures) >= 1
    /\ contractSignatures = result.before.contractSignatures

\* C3: when a signContract call has failed, at whatever step,
\* contractSignatures and history are what they were before the call.
C3_NoPartialState ==
    ( /\ IsContract
      /\ result.op = "signContract"
      /\ result.outcome # OK
      /\ pending = <<>> )
    => /\ contractSignatures = result.before.contractSignatures
       /\ history = result.before.history

\* C4: when a record that was valid when made was made over another hash
\* than that of the current content (the data was changed after signing),
\* verifySignatures fails with the invalid-signature error.
C4_TamperDetected ==
    ( /\ IsContract
      /\ result.op = "verifySignatures"
      /\ \E i \in 1..Len(contractSignatures) :
            /\ ValidWhenMade(contractSignatures[i])
            /\ contractSignatures[i].contractHash # getHash )
    => result.outcome = ErrInvalidSignature

C4_Witness ==
    /\ IsContract
    /\ result.op = "verifySignatures"
    /\ result.outcome = ErrInvalidSignature
    /\ Len(contractSignatures) >= 1
    /\ \A i \in 1..Len(contractSignatures) :
            /\ ValidWhenMade(contractSignatures[i])
            /\ contractSignatures[i].contractHash # getHash
    /\ data # Data(TemplateModel, "a")

IsSign(e, party) ==
    e.currentState.operation = "sign" /\ e.currentState.party = party

\* C5: when signContract was called for P1 and then for P2 on an instance
\* without signatures and both calls succeeded, history holds exactly two
\* 'sign' entries, P1's before P2's, and contractSignatures holds P1's
\* record followed by P2's.
C5_MultiPartyOrdering ==
    ( /\ IsContract
      /\ called = <<"P1", "P2">>
      /\ succeeded = 2
      /\ loaded = 0 )
    => /\ Len(contractSignatures) = 2
       /\ contractSignatures[1].signatory = "P1"
       /\ contractSignatures[2].signatory = "P2"
       /\ Len(SelectSeq(history, LAMBDA e : e.currentState.operation = "sign")) = 2
       /\ Len(history) = 3
       /\ IsSign(history[2], "P1")
       /\ IsSign(history[3], "P2")

C5_Witness ==
    /\ IsContract
    /\ called = <<"P1", "P2">>
    /\ succeeded = 2
    /\ loaded = 0
    /\ result.op = "signContract"
    /\ result.outcome = OK

C7_HistoryAppendOnly ==
    /\ [](IsContract =>
            /\ Len(history) >= 1
            /\ history[1].currentState.operation = "instantiate")
    /\ [][ /\ Len(history') >= Len(history)
           /\ SubSeq(history', 1, Len(history)) = history ]_vars

C7_Witness ==
    /\ IsContract
    /\ Len(history) = 3
    /\ result.op \in {"verifySignatures", "getHash"}
    /\ history[1].currentState.operation = "instantiate"

\* C8: on an instance without signatures verifySignatures(true) fails with
\* the no-signatures error and verifySignatures(false) returns true.
C8_StandaloneVerifyEmpty ==
    ( /\ IsContract
      /\ result.op = "verifySignatures"
      /\ Len(contractSignatures) = 0 )
    => /\ result.arg = TRUE => result.outcome = ErrNotSigned
       /\ result.arg = FALSE => result.outcome = OK

C8_Witness ==
    /\ IsContract
    /\ result.op = "verifySignatures"
    /\ Len(contractSignatures) = 0
    /\ result.arg = TRUE
    /\ result.outcome = ErrNotSigned

\* C9: verifySignatures returns true only if every record verifies against
\* the hash of the current content, and fails with the invalid-signature
\* error as soon as one record, at whatever index, does not.
C9_AllOrNothing ==
    ( /\ IsContract
      /\ result.op = "verifySignatures" )
    => /\ result.outcome = OK =>
            \A i \in 1..Len(contractSignatures) : ~Invalid(contractSignatures[i])
       /\ AnyInvalid => result.outcome = ErrInvalidSignature

C9_Witness ==
    /\ IsContract
    /\ result.op = "verifySignatures"
    /\ result.outcome = ErrInvalidSignature
    /\ Len(contractSignatures) = 2
    /\ ~Invalid(contractSignatures[1])
    /\ Invalid(contractSignatures[2])

\* C10: verifyTemplateSignature on a template whose authorSignature is null
\* fails with the missing-signature error and leaves the template as it was.
C10_MissingSignature ==
    ( /\ IsTemplate
      /\ result.op = "verifyTemplateSignature"
      /\ result.before.authorSignature = NullObject )
    => /\ result.outcome = ErrMissingSignature
       /\ authorSignature = NullObject
       /\ getHash = result.before.hash

C10_Witness ==
    /\ IsTemplate
    /\ result.op = "verifyTemplateSignature"
    /\ result.outcome = ErrMissingSignature
    /\ authorSignature = NullObject

\* the record that authorSignature holds, whatever its shape
AuthorRecord ==
    IF "templateSignature" \in DOMAIN authorSignature
    THEN authorSignature.templateSignature
    ELSE authorSignature

\* authorSignature holds a signature by the key of its certificate over the
\* hash and the timestamp stored in it
AuthorValidWhenMade ==
    /\ authorSignature # NullObject
    /\ cryptoVerify(AuthorRecord.signatoryCert.publicKey,
                    AuthorRecord.templateHash \o Decimal(AuthorRecord.timestamp),
                    AuthorRecord.signature)

\* C11: when the author signature of a template was valid for the content it
\* was made over and the hashed content (metadata, grammar, a model, a
\* script) is different now, verifyTemplateSignature fails with the
\* invalid-signature error and with no other failure.
C11_TemplateTamperDetected ==
    (/\ IsTemplate
     /\ result.op = "verifyTemplateSignature"
     /\ AuthorValidWhenMade
     /\ AuthorRecord.templateHash # getHash)
        => result.outcome = ErrInvalidSignature

\* C12: a template carries at most one author signature. After a successful
\* signTemplate authorSignature is the one record of that call, over the
\* current hash, whatever it was before (re-signing overwrites); nothing but
\* a signTemplate call, made by the user or by toArchive for its keystore,
\* changes authorSignature, and no operation of a template, so not
\* signTemplate either, adds an entry to a history.
C12_OneAuthorSignature ==
    /\ [](IsTemplate /\ result.op = "signTemplate" /\ result.outcome = OK
            => \E ks \in Keystores, t \in Epoch..(Epoch + MaxClock) :
                    authorSignature = templateSignatureObject(ks, t, getHash))
    /\ [][IsTemplate =>
            /\ authorSignature' # authorSignature
                    => \/ result'.op = "signTemplate" /\ result'.outcome = OK
                       \/ /\ result'.op = "toArchive"
                          /\ result'.arg
                          /\ result'.outcome \in {OK, ErrPersist}
            /\ history' = history]_vars

C12_Witness ==
    /\ IsTemplate
    /\ result.op = "signTemplate"
    /\ result.outcome = OK
    /\ result.before.authorSignature # NullObject
    /\ result.before.authorSignature # authorSignature
    /\ "templateHash" \in DOMAIN result.before.authorSignature
    /\ history = <<>>

\* the content is the one the artifact was constructed with
ContentAsConstructed ==
    /\ metadata = MetadataAsConstructed
    /\ models = [ns \in {"org.example@1.0.0"} |-> "concept C {}"]
    /\ scripts = [id \in {"logic.ergo"} |-> "contract C {}"]
    /\ IsContract => data = Data(TemplateModel, "a")

\* the digest of that content: no data in a template, no grammar without one
HashAsConstructed ==
    << IF IsContract THEN 2 ELSE 0, IF grammar = "g1" THEN 2 ELSE 0, 2, 2, 2 >>

\* C13: the hash depends on the content alone. A step that changes the
\* signatures or the history of an artifact (signTemplate, sign within
\* signContract, the completion of signContract) leaves getHash as it was,
\* and every artifact with the content it was constructed with has the hash
\* of that content, whatever its signatures, its history and the times of
\* signing are.
C13_HashIgnoresSignatures ==
    /\ [](ContentAsConstructed /\ grammar \in {NULL, "g1"} => getHash = HashAsConstructed)
    /\ [][(\/ authorSignature' # authorSignature
           \/ contractSignatures' # contractSignatures
           \/ history' # history
           \/ pending' # pending) => getHash' = getHash]_vars

\* a contract signed twice after its construction, at different times, and
\* a template signed again at a later time, with the content as constructed
C13_Witness ==
    /\ ContentAsConstructed
    /\ \/ /\ IsContract
          /\ loaded = 0
          /\ succeeded = 2
          /\ Len(contractSignatures) = 2
          /\ contractSignatures[1].timestamp # contractSignatures[2].timestamp
          /\ getHash = result.before.hash
       \/ /\ IsTemplate
          /\ result.op = "signTemplate"
          /\ result.outcome = OK
          /\ result.before.authorSignature # NullObject
          /\ AuthorRecord.timestamp > Epoch
          /\ getHash = result.before.hash

\* C14: getHash is deterministic and has no effect. A call returns the hash
\* of the content as it is, changes neither the content nor the signatures
\* nor the history, and returns what the call before it returned when
\* nothing but signing happened between the two.
C14_HashDeterministic ==
    /\ [](result.op = "getHash" => result.value = getHash /\ result.value = result.before.hash)
    /\ [][result'.op = "getHash" /\ result' # result =>
            /\ UNCHANGED <<contentVars, dataVars, authorSignature, contractSignatures,
                           history, pending>>
            /\ result'.value = getHash
            /\ result.op = "getHash" => result'.value = result.value]_vars

\* getHash has returned on an artifact that carries signatures
C14_Witness ==
    /\ result.op = "getHash"
    /\ result.value = getHash
    /\ \/ IsContract /\ Len(contractSignatures) > loaded /\ Len(history) > 1
       \/ IsTemplate /\ authorSignature # NullObject /\ ~ContentAsConstructed

\* the models and the scripts that the edits can produce
ModelMaps == [{"org.example@1.0.0"} -> ModelContents]
ScriptMaps == [{"logic.ergo"} -> ScriptContents]
BoundData == { d \in DataObjects : d.class = TemplateModel /\ d.field # UNDEFINED }

\* C15: the hash is sensitive to the content. A step that changes the
\* content of a model, the contents of a script or the bound data changes
\* getHash; both hash functions give a digest other than that of the current
\* content for a content that differs from it in one model, in one script
\* or (instance) in the data; the hashed
\* structure of a template has no data, that of an instance has.
C15_HashSensitive ==
    /\ [][(models' # models \/ scripts' # scripts \/ data' # data)
            => getHash' # getHash]_vars
    /\ [](/\ \A ms \in ModelMaps \ {models}, d \in BoundData :
               /\ Template_getHash(metadata, grammar, ms, scripts)
                       # Template_getHash(metadata, grammar, models, scripts)
               /\ ContractInstance_getHash(metadata, grammar, ms, scripts, d)
                       # ContractInstance_getHash(metadata, grammar, models, scripts, d)
          /\ \A ss \in ScriptMaps \ {scripts}, d \in BoundData :
               /\ Template_getHash(metadata, grammar, models, ss)
                       # Template_getHash(metadata, grammar, models, scripts)
               /\ ContractInstance_getHash(metadata, grammar, models, ss, d)
                       # ContractInstance_getHash(metadata, grammar, models, scripts, d)
          /\ \A d1 \in BoundData : \A d2 \in BoundData \ {d1} :
               ContractInstance_getHash(metadata, grammar, models, scripts, d1)
                   # ContractInstance_getHash(metadata, grammar, models, scripts, d2)
          /\ "data" \notin DOMAIN TemplateContent(metadata, grammar, models, scripts)
          /\ \A d \in BoundData :
               "data" \in DOMAIN InstanceContent(metadata, grammar, models, scripts, d))

\* setData has bound other data to an instance, or a model or a script of a
\* template was edited, and the hash is not what it was
C15_Witness ==
    /\ getHash # result.before.hash
    /\ \/ IsContract /\ result.op = "setData" /\ result.outcome = OK
          /\ data = Data(TemplateModel, "b")
       \/ IsTemplate /\ result.op \in {"updateModelFile", "updateScript"}

\* C16: contractSignatures is an ordered sequence that only grows. No step
\* of a contract instance removes, reorders or modifies a record; a step
\* that changes it is the sign of a signContract call and appends exactly
\* one record, that of the caller, at the end, also when the caller has a
\* record in it already.
C16_SignaturesAppendOnly ==
    [][IsContract =>
        /\ Len(contractSignatures') >= Len(contractSignatures)
        /\ SubSeq(contractSignatures', 1, Len(contractSignatures)) = contractSignatures
        /\ contractSignatures' # contractSignatures =>
            /\ Len(contractSignatures') = Len(contractSignatures) + 1
            /\ called' = Append(called, contractSignatures'[Len(contractSignatures')].signatory)
            /\ ValidWhenMade(contractSignatures'[Len(contractSignatures')])]_vars

\* one party has signed twice and both records are there, in signing order
C16_Witness ==
    /\ IsContract
    /\ loaded = 0
    /\ succeeded = 2
    /\ called = <<"P1", "P1">>
    /\ Len(contractSignatures) = 2
    /\ contractSignatures[1].signatory = "P1"
    /\ contractSignatures[2].signatory = "P1"
    /\ contractSignatures[1].timestamp <= contractSignatures[2].timestamp

\* hashes written over the stored hash of a record
OtherHashes == { getHash, <<0, 0, 0, 0, 0>>, <<9, 9, 9, 9, 9>> }

\* contractSignatures with h as the stored hash of every record
WithContractHash(sigs, h) == [i \in 1..Len(sigs) |-> [sigs[i] EXCEPT !.contractHash = h]]

\* authorSignature with h as the stored hash
WithTemplateHash(sig, h) ==
    CASE sig = NullObject -> sig
      [] "templateSignature" \in DOMAIN sig -> [sig EXCEPT !.templateSignature.templateHash = h]
      [] OTHER -> [sig EXCEPT !.templateHash = h]

\* C17: verification does not read the stored hash. verifySignatures and
\* verifyTemplateSignature have the outcome they would have on records that
\* differ from the present ones in the stored contractHash / templateHash
\* only.
C17_StoredHashIgnored ==
    \A h \in OtherHashes :
        /\ IsContract =>
            /\ \A b \in BOOLEAN :
                    verifySignatures(WithContractHash(contractSignatures, h), b, getHash)
                        = verifySignatures(contractSignatures, b, getHash)
            /\ result.op = "verifySignatures" =>
                    result.outcome = verifySignatures(
                        WithContractHash(result.before.contractSignatures, h),
                        result.arg, result.before.hash)
        /\ IsTemplate =>
            /\ verifyTemplateSignature(WithTemplateHash(authorSignature, h), getHash)
                    = verifyTemplateSignature(authorSignature, getHash)
            /\ result.op = "verifyTemplateSignature" =>
                    result.outcome = verifyTemplateSignature(
                        WithTemplateHash(result.before.authorSignature, h),
                        result.before.hash)

\* a record whose stored hash is not the hash of the content has verified,
\* or records whose stored hash is not the hash of the content were refused
C17_Witness ==
    \/ /\ IsTemplate
       /\ result.op = "verifyTemplateSignature"
       /\ result.outcome = OK
       /\ authorSignature.templateSignature.templateHash # getHash
    \/ /\ IsContract
       /\ result.op = "verifySignatures"
       /\ result.outcome = ErrInvalidSignature
       /\ Len(contractSignatures) > 0
       /\ \A i \in 1..Len(contractSignatures) : contractSignatures[i].contractHash # getHash

\* timestamps that can be written over the timestamp of a record
Timestamps == (Epoch - 1)..(Epoch + MaxClock + 1)

\* C18: a record verifies for the hash and the timestamp it was made with
\* and for the key it was made with, and for nothing else. A record that
\* sign has appended verifies when the current hash is the hash at signing;
\* it does not verify with another timestamp in its place, with the
\* certificate of another key, or with a changed signature text. The signed
\* text is the hash followed at once by the decimal timestamp.
C18_ExactPairAndKey ==
    IsContract =>
        \A i \in (loaded + 1)..Len(contractSignatures) :
            LET r == contractSignatures[i]
            IN /\ \E ks \in Keystores :
                    /\ r.signatoryCert = CertificateOf(ks)
                    /\ r.signature = cryptoSign(PrivateKeyOf(ks),
                                                r.contractHash \o Decimal(r.timestamp))
               /\ r.contractHash = getHash =>
                    /\ verify(r.signature, r.timestamp, r.signatoryCert, getHash) = OK
                    /\ \A t \in Timestamps \ {r.timestamp} :
                            verify(r.signature, t, r.signatoryCert, getHash)
                                = ErrInvalidSignature
                    /\ \A ks \in Keystores :
                            CertificateOf(ks) # r.signatoryCert =>
                                verify(r.signature, r.timestamp, CertificateOf(ks), getHash)
                                    = ErrInvalidSignature
                    /\ verify(Corrupted(r).signature, r.timestamp, r.signatoryCert, getHash)
                            = ErrInvalidSignature
               /\ r.contractHash # getHash =>
                    verify(r.signature, r.timestamp, r.signatoryCert, getHash)
                        = ErrInvalidSignature

\* two parties have signed with their keys at different times and the
\* records have verified
C18_Witness ==
    /\ IsContract
    /\ loaded = 0
    /\ Len(contractSignatures) = 2
    /\ contractSignatures[1].signatoryCert # contractSignatures[2].signatoryCert
    /\ contractSignatures[1].timestamp # contractSignatures[2].timestamp
    /\ result.op = "verifySignatures"
    /\ result.before.contractSignatures = contractSignatures
    /\ result.outcome = OK

\* C19: setData binds only data that conforms to the template model. A call
\* with data of another class, or with data that the serializer or the
\* validation refuses, throws and leaves data and concertoData as they
\* were; a call that returns has made data the object given and
\* concertoData the resource validated from it.
C19_SetDataValidates ==
    /\ [](IsContract /\ result.op = "setData" =>
            /\ result.arg.class # TemplateModel => result.outcome = ErrInvalidData
            /\ result.arg.class = TemplateModel /\ result.arg.field = UNDEFINED
                    => result.outcome = ErrValidation
            /\ result.arg.class = TemplateModel /\ result.arg.field # UNDEFINED
                    => result.outcome = OK
            /\ result.outcome = OK =>
                    /\ data = result.arg
                    /\ concertoData = [resource |-> result.arg])
    /\ [][IsContract /\ result'.op = "setData" /\ result'.outcome # OK
            => UNCHANGED dataVars]_vars

\* other data was bound, and then a call with data that is not valid threw
C19_Witness ==
    /\ IsContract
    /\ result.op = "setData"
    /\ result.outcome \in {ErrInvalidData, ErrValidation}
    /\ data = Data(TemplateModel, "b")
    /\ concertoData = [resource |-> data]

PrivateKeys == { PrivateKeyOf(ks) : ks \in Keystores }

\* a certificate: the PEM text, which holds the public key
IsCertificate(c) ==
    /\ DOMAIN c = {"pem", "publicKey"}
    /\ c.pem \in STRING
    /\ c.publicKey \in { PublicKeyOf(ks) : ks \in Keystores }
    /\ c.publicKey \notin PrivateKeys

\* a signature: the hex text that names no more than the key pair and the
\* signed text
IsSignature(g) ==
    /\ DOMAIN g = {"pair", "text"}
    /\ g.pair \in Keystores
    /\ \A i \in 1..Len(g.text) : g.text[i] \in 0..9

IsHash(h) == Len(h) = HashLen /\ \A i \in 1..HashLen : h[i] \in 0..9

\* C20: a signature record holds no private key. Every record of
\* contractSignatures has the fields signatory, contractHash, timestamp,
\* signatoryCert and signature and no other, authorSignature is null or has
\* the fields templateHash, timestamp, signatoryCert and signature and no
\* other, and these fields are a name, a hash, a number, a certificate and a
\* signature; this holds after every signing, successful or failed.
C20_NoPrivateKeyStored ==
    /\ \A i \in 1..Len(contractSignatures) :
            LET r == contractSignatures[i]
            IN /\ DOMAIN r = {"signatory", "contractHash", "timestamp",
                              "signatoryCert", "signature"}
               /\ r.signatory \in STRING
               /\ IsHash(r.contractHash)
               /\ r.timestamp \in Nat
               /\ IsCertificate(r.signatoryCert)
               /\ IsSignature(r.signature)
    /\ authorSignature # NullObject =>
            /\ DOMAIN authorSignature \in
                    { {"templateSignature"},
                      {"templateHash", "timestamp", "signatoryCert", "signature"} }
            /\ DOMAIN AuthorRecord = {"templateHash", "timestamp", "signatoryCert", "signature"}
            /\ IsHash(AuthorRecord.templateHash)
            /\ AuthorRecord.timestamp \in Nat
            /\ IsCertificate(AuthorRecord.signatoryCert)
            /\ IsSignature(AuthorRecord.signature)

\* a contract was signed and a further signing failed on the key material,
\* or a template was signed in memory and a further signing failed
C20_Witness ==
    /\ result.outcome \in {ErrKeystore, ErrP12Type, ErrPassphraseType}
    /\ \/ /\ IsContract
          /\ result.op = "signContract"
          /\ Len(contractSignatures) > loaded
       \/ /\ IsTemplate
          /\ result.op = "signTemplate"
          /\ authorSignature # NullObject
          /\ "templateHash" \in DOMAIN authorSignature

SignedOverCurrentContent ==
    \A i \in 1..Len(contractSignatures) : contractSignatures[i].contractHash = getHash

\* C22: earlier signatures stay valid when co-signers are added. On an
\* instance that came without signatures and whose records were all made by
\* signContract over the content as it is now, verifySignatures(true)
\* succeeds whatever the number of records is.
C22_EarlierSignaturesStayValid ==
    (IsContract /\ loaded = 0 /\ Len(contractSignatures) >= 1 /\ SignedOverCurrentContent)
        => /\ verifySignatures(contractSignatures, TRUE, getHash) = OK
           /\ (/\ result.op = "verifySignatures"
               /\ result.arg = TRUE
               /\ result.before.contractSignatures = contractSignatures)
                    => result.outcome = OK

\* two signContract calls have succeeded at different times on an instance
\* whose content was not changed, and the standalone verification succeeded
C22_Witness ==
    /\ IsContract
    /\ loaded = 0
    /\ ContentAsConstructed
    /\ succeeded = 2
    /\ Len(contractSignatures) = 2
    /\ contractSignatures[1].timestamp < contractSignatures[2].timestamp
    /\ SignedOverCurrentContent
    /\ result.op = "verifySignatures"
    /\ result.arg = TRUE
    /\ result.outcome = OK

\* C23: overlapping signContract calls lose no signature. Whatever calls
\* are suspended at their persist step and in whatever order they resume,
\* contractSignatures holds behind the records of the archive one record for
\* every call that has signed, in the order of the calls; the record of a
\* suspended call stands right behind the records that call has verified.
C23_OverlappingCallsKeepAll ==
    IsContract =>
        /\ Len(contractSignatures) = loaded + Len(called)
        /\ \A j \in 1..Len(called) :
                /\ contractSignatures[loaded + j].signatory = called[j]
                /\ ValidWhenMade(contractSignatures[loaded + j])
        /\ \A i \in 1..Len(pending) :
                LET k == Len(pending[i].before.contractSignatures)
                IN /\ k < Len(contractSignatures)
                   /\ SubSeq(contractSignatures, 1, k) = pending[i].before.contractSignatures
                   /\ contractSignatures[k + 1].signatory = pending[i].signatory
        /\ (result.op = "signContract" /\ result.outcome \in {OK, ErrPersist}) =>
                LET k == Len(result.before.contractSignatures)
                IN /\ k < Len(contractSignatures)
                   /\ SubSeq(contractSignatures, 1, k) = result.before.contractSignatures
                   /\ contractSignatures[k + 1].signatory = result.arg[3]

\* P1 and P2 have called signContract one after the other without awaiting,
\* P2's call has resumed first and P1's call last; both records are there
C23_Witness ==
    /\ IsContract
    /\ loaded = 0
    /\ called = <<"P1", "P2">>
    /\ pending = <<>>
    /\ succeeded = 2
    /\ result.op = "signContract"
    /\ result.outcome = OK
    /\ result.arg[3] = "P1"
    /\ result.before.contractSignatures = <<>>
    /\ Len(contractSignatures) = 2
    /\ contractSignatures[1].signatory = "P1"
    /\ contractSignatures[2].signatory = "P2"

MetadataFields == {"packageJson", "readme", "samples", "request", "logo"}

\* metadata m is metadata n with value v in field f and nothing else changed
ReplacesField(m, n, f, v) ==
    /\ m[f] = v
    /\ \A g \in MetadataFields \ {f} : m[g] = n[g]

\* C24: every setter of the metadata replaces one field. After setSamples,
\* setRequest, setReadme or setPackageJson the metadata has the value given
\* in the samples, the request, the README or the package.json, after
\* setSample the samples have the sample given under the locale given and
\* are as before under the other locales, and every other field of the
\* metadata, the logo too, is what it was before the call.
C24_SettersReplaceOneField ==
    IsTemplate =>
        /\ result.op = "setPackageJson"
                => ReplacesField(metadata, result.value, "packageJson", result.arg)
        /\ result.op = "setReadme"
                => ReplacesField(metadata, result.value, "readme", result.arg)
        /\ result.op = "setRequest"
                => ReplacesField(metadata, result.value, "request", result.arg)
        /\ result.op = "setSamples"
                => ReplacesField(metadata, result.value, "samples", result.arg)
        /\ result.op = "setSample" =>
                /\ \A g \in MetadataFields \ {"samples"} : metadata[g] = result.value[g]
                /\ DOMAIN metadata.samples = DOMAIN result.value.samples \cup {result.arg[2]}
                /\ metadata.samples[result.arg[2]] = result.arg[1]
                /\ \A l \in DOMAIN result.value.samples \ {result.arg[2]} :
                        metadata.samples[l] = result.value.samples[l]

\* C25: a signTemplate call that throws (p12File or passphrase that is no
\* string, timestamp that is no number, keystore that cannot be decoded,
\* wrong passphrase) leaves authorSignature exactly as it was before the
\* call, null or the earlier record.
C25_FailedSignKeepsSignature ==
    (IsTemplate /\ result.op = "signTemplate" /\ result.outcome # OK)
        => /\ result.outcome \in {ErrP12Type, ErrPassphraseType, ErrTimestampType,
                                   ErrKeystore}
           /\ authorSignature = result.before.authorSignature

\* a template that carries a signature was signed again with a keystore
\* that cannot be opened
C25_Witness ==
    /\ IsTemplate
    /\ result.op = "signTemplate"
    /\ result.outcome = ErrKeystore
    /\ authorSignature # NullObject
    /\ authorSignature = result.before.authorSignature

SignatureErrors == {ErrMissingSignature, ErrInvalidSignature, ErrTypeError, ErrPem}

C27_ToArchiveSignsWithKeystore ==
    (IsTemplate /\ result.op = "toArchive") =>
        /\ result.arg /\ result.outcome \notin {OK, ErrPersist} =>
                /\ result.outcome \in {ErrP12Type, ErrPassphraseType, ErrKeystore}
                /\ result.value = NoValue
                /\ authorSignature = result.before.authorSignature
        /\ result.arg /\ result.outcome \in {OK, ErrPersist} =>
                \E ks \in Keystores, t \in Epoch..(Epoch + MaxClock) :
                    authorSignature = templateSignatureObject(ks, t, getHash)
        /\ ~result.arg =>
                /\ result.outcome \in {OK, ErrPersist}
                /\ authorSignature = result.before.authorSignature
        /\ result.value # NoValue <=> result.outcome = OK

\* toArchive with a keystore has replaced the signature that came with the
\* template and has produced the archive
C27_Witness ==
    /\ IsTemplate
    /\ result.op = "toArchive"
    /\ result.arg
    /\ result.outcome = OK
    /\ result.value = <<"archive">>
    /\ result.before.authorSignature # NullObject
    /\ authorSignature # result.before.authorSignature

\* what getTemplate() returns when no grammar is set, and non-empty grammars
NoGrammars == {NULL, ""}
SomeGrammars == {"g1", "g2"}

\* C28: the grammar is left out of the hashed content when none is set. For
\* Template.getHash and ContractInstance.getHash the hash without a grammar
\* is the digest of the structure that has no 'grammar' key, which differs
\* from the digest of the structure with a null-valued key, and a non-empty
\* grammar gives another hash; so the hash of an artifact without a grammar
\* is the one of the key-less structure, and setting a grammar on it
\* changes the hash.
C28_GrammarOmittedWhenUnset ==
    LET t == [metadata |-> metadata, models |-> models, scripts |-> scripts]
        c(d) == [metadata |-> metadata, models |-> models, scripts |-> scripts,
                 data |-> d]
        withKey(content, g) ==
            [k \in DOMAIN content \cup {"grammar"} |->
                IF k = "grammar" THEN g ELSE content[k]]
    IN /\ \A g \in NoGrammars :
            /\ Template_getHash(metadata, g, models, scripts) = sha256(stringify(t))
            /\ Template_getHash(metadata, g, models, scripts)
                    # sha256(stringify(withKey(t, g)))
            /\ \A d \in BoundData \cup {data} :
                    /\ ContractInstance_getHash(metadata, g, models, scripts, d)
                            = sha256(stringify(c(d)))
                    /\ ContractInstance_getHash(metadata, g, models, scripts, d)
                            # sha256(stringify(withKey(c(d), g)))
       /\ \A g \in SomeGrammars :
            /\ Template_getHash(metadata, g, models, scripts) # sha256(stringify(t))
            /\ \A d \in BoundData \cup {data} :
                    ContractInstance_getHash(metadata, g, models, scripts, d)
                        # sha256(stringify(c(d)))
       /\ IsTemplate /\ grammar \in NoGrammars => getHash = sha256(stringify(t))
       /\ IsContract /\ grammar \in NoGrammars => getHash = sha256(stringify(c(data)))
       /\ (result.op = "setTemplate" /\ grammar \notin NoGrammars
              /\ result.before.hash = sha256(stringify(t)))
            => getHash # result.before.hash

\* a grammar has been set on a template that had none, after its content
\* had been edited
C28_Witness ==
    /\ IsTemplate
    /\ result.op = "setTemplate"
    /\ grammar \in SomeGrammars
    /\ ~ContentAsConstructed
    /\ result.before.hash = Template_getHash(metadata, NULL, models, scripts)
    /\ getHash # result.before.hash

\* C29: draft requires data. data and concertoData are both null or both
\* set after any sequence of setData and parse calls, successful or failed;
\* they are null exactly as long as no setData or parse call has succeeded,
\* and a draft() made before any such call has succeeded fails with
\* 'Data has not been set...' and returns nothing.
C29_DraftRequiresData ==
    /\ (data = NullObject) <=> (concertoData = NullObject)
    /\ IsContract => (dataWasSet <=> data # NullObject)
    /\ (result.op = "draft" /\ ~dataWasSet) =>
            /\ result.outcome = ErrNoData
            /\ result.value = NoValue

\* draft has been refused on an instance on which a parse had been tried
\* and had failed
C29_Witness ==
    /\ result.op = "draft"
    /\ ~dataWasSet
    /\ currentTime # Epoch
    /\ result.outcome = ErrNoData
    /\ data = NullObject
    /\ concertoData = NullObject

\* data objects with the same members: the same $class and the same value
\* of the field
EqualData(d1, d2) == d1.class = d2.class /\ d1.field = d2.field

====
